---- MODULE Spec2Model ----
(***************************************************************************)
(* Job status reconciliation of the scan results page.                     *)
(*                                                                         *)
(* The results page (src/unnamed/part_000) polls getStatus (src/lib/api.ts) *)
(* from a React effect, publishes the returned status snapshot, and fires   *)
(* startAiAnalysis once when a snapshot carries the stage "analyzing".      *)
(* getStatus reads the remote job state through the FastAPI client          *)
(* (src/lib/backend/README.md) and, for a complete job, materializes the    *)
(* image payload into the pixel data store (src/lib/dicom-processor.ts).    *)
(*                                                                         *)
(* Every await of the code is a step boundary: a poll is a small process    *)
(* whose position is polls[p].pc.  React commits a state change and runs    *)
(* the effect cleanup / re-run in a later task than the setState call, so   *)
(* the effect re-run is an action of its own (RunEffect).                   *)
(* Progress fractions are kept in tenths (0.8 is 8).                        *)
(*                                                                         *)
(* startAiAnalysis reads the analyze response chunk by chunk; decoded text  *)
(* is a sequence of tokens, so that the line split, the prefix tests,       *)
(* JSON.parse and the patterns of extractKeyFindings are computed.          *)
(***************************************************************************)
EXTENDS Integers, Sequences, FiniteSets, TLC

\* ------------------------------------------------------------------ bounds
\* Number of status polls one page session may start.
MaxPolls == 3
\* Number of chunks in a response body of the analyze endpoint (page session).
MaxChunks == 1
\* Number of wire lines in a response body fed to the stream reader alone.
MaxLines == 2
\* Number of lines of a text fed to extractKeyFindings alone.
MaxItems == 6
\* The retry count after which the specification text wants "error".
RetryLimit == 2

\* --------------------------------------------------------------- constants
RemoteStates == {"pending", "processing", "complete", "failed"}

ProcessingStage == {"queued", "normalizing", "compressing", "analyzing", "completed", "error"}

TerminalStages == {"completed", "error"}

EarlierStages == {"queued", "normalizing", "compressing"}

\* File names are kept as (stem, extension) so that endsWith('.png') is computed.
MontageOverview == [stem |-> "montage_overview", ext |-> "png"]
SliceA == [stem |-> "slice_000", ext |-> "png"]
SliceB == [stem |-> "slice_001", ext |-> "png"]
BundleJson == [stem |-> "metadata", ext |-> "json"]
NoFile == [stem |-> "", ext |-> ""]

\* Bundle listings (bundleMeta.files) the remote service may return.
Listings == { <<>>, <<BundleJson>>, <<BundleJson, MontageOverview, SliceA>>, <<BundleJson, SliceB, SliceA>> }

\* Values of bundleMeta.metadata.bundle.montage_file (NoFile: field absent).
MontageFileChoices == {NoFile, MontageOverview, SliceB}

\* jobResult.metrics.num_slices: -1 stands for "absent or not a number".
NumSlicesChoices == {-1, 4}

\* bundleMeta.metadata.prompt: "" stands for "absent or not a string".
PromptChoices == {"", "custom prompt"}

DefaultPrompt == "Please analyze this CT scan series."

NoPayload == [present |-> FALSE]

NoStatus == [stage |-> "none", progress |-> 0, errorMessage |-> "", seen |-> "none", attempt |-> 0]

VARIABLES
    remote,        \* state of the job at the compression service
    store,         \* pixelDataStore entry of this job (NoPayload when absent)
    polls,         \* the pollStatus invocations in flight, in the order they started
    nStarted,      \* number of pollStatus invocations so far
    status,        \* page state `status` (NoStatus is null)
    error,         \* page state `error` ("" is null)
    results,       \* page state `results` (NoResults is null)
    streamStartedRef, \* the latch streamStartedRef.current
    mounted,       \* the page is mounted
    effect,        \* the effect instance in force: its closure and its interval
    stream,        \* the startAiAnalysis invocation
    hist           \* history of the session (observation only)

vars == <<remote, store, polls, nStarted, status, error, results, streamStartedRef, mounted, effect, stream, hist>>

\* A pollStatus invocation that has just called getStatus.
NewPoll == [pc |-> "getJobResult", alive |-> TRUE, file |-> NoFile, listed |-> FALSE, overtaken |-> FALSE]

\* The invocations in flight once invocation p has returned.
Returned(ps, p) == SubSeq(ps, 1, p - 1) \o SubSeq(ps, p + 1, Len(ps))

\* `results`: keyFindings and metadata.modality, metadata.slicesProcessed of the record.
\* Invocation p publishes its response: the live invocations started before it
\* (lower index) are from now on overtaken.
Overtake(ps, p) ==
    [i \in DOMAIN ps |-> IF i < p /\ ps[i].alive THEN [ps[i] EXCEPT !.overtaken = TRUE] ELSE ps[i]]

NoResults == [present |-> FALSE, keyFindings |-> <<>>, modality |-> "", slicesProcessed |-> 0]

NoEffect == [ran |-> FALSE, stage |-> "none", results |-> FALSE, interval |-> FALSE]

\* The startAiAnalysis invocation: its position, accumulatedText, the `results`
\* of its closure, the response body and the index of the next chunk to read;
\* appendOnly records that every value given to setDiagnosisStream extended the
\* one before.
NoStream == [pc |-> "idle", acc |-> <<>>, results |-> FALSE, body |-> <<>>, pos |-> 1, appendOnly |-> TRUE]

\* History counters saturate at MaxPolls (a session of MaxPolls polls never gets there).
Sat(n) == IF n < MaxPolls THEN n + 1 ELSE n

NoHist == [storeWrites |-> 0, matFails |-> 0, triggers |-> 0, published |-> {}, analyzingPublished |-> 0, requestAfterTerminal |-> FALSE, analyzeNotFound |-> FALSE, fastPath |-> FALSE, resultSets |-> 0, lateAnalyzing |-> FALSE, written |-> [numSlices |-> 0, prompt |-> ""], discardedAnalyzing |-> FALSE, outOfOrder |-> FALSE]

Init ==
    /\ remote = "pending"
    /\ store = NoPayload
    /\ polls = <<>>
    /\ nStarted = 0
    /\ status = NoStatus
    /\ error = ""
    /\ results = NoResults
    /\ streamStartedRef = FALSE
    /\ mounted = TRUE
    /\ effect = NoEffect
    /\ stream = NoStream
    /\ hist = NoHist

\* ------------------------------------------------------- getStatus (pure)
\* Variant of BundleNotReady: a failed materialization escalates to "error".
BundleNotReady_Escalated == [stage |-> "error", progress |-> 0]

\* The catch block of the bundle fetch: "keep as compressing until bundle is ready".
BundleNotReady == [stage |-> "compressing", progress |-> 7]

\* Variant of MapStage: "complete" is mapped to "analyzing" before the payload is stored.
MapStage_Eager(jobStatus, ready) ==
    CASE jobStatus = "pending" -> [stage |-> "queued", progress |-> 1]
      [] jobStatus = "processing" -> [stage |-> "compressing", progress |-> 5]
      [] jobStatus = "complete" -> [stage |-> "analyzing", progress |-> 8]
      [] jobStatus = "failed" -> [stage |-> "error", progress |-> 0]
      [] OTHER -> [stage |-> "queued", progress |-> 0]

\* Variant of MapStage: the switch has no default branch result of its own and
\* an unrecognized state falls into the "failed" case.
MapStage_DefaultError(jobStatus, ready) ==
    CASE jobStatus = "pending" -> [stage |-> "queued", progress |-> 1]
      [] jobStatus = "processing" -> [stage |-> "compressing", progress |-> 5]
      [] jobStatus = "complete" -> IF ready THEN [stage |-> "analyzing", progress |-> 8] ELSE [stage |-> "compressing", progress |-> 7]
      [] OTHER -> [stage |-> "error", progress |-> 0]

\* The switch over jobResult.status; `ready` says that the payload is stored
\* (found by getPixelData, or just written by storePixelData).
MapStage(jobStatus, ready) ==
    CASE jobStatus = "pending" -> [stage |-> "queued", progress |-> 1]
      [] jobStatus = "processing" -> [stage |-> "compressing", progress |-> 5]
      [] jobStatus = "complete" -> IF ready THEN [stage |-> "analyzing", progress |-> 8] ELSE BundleNotReady
      [] jobStatus = "failed" -> [stage |-> "error", progress |-> 0]
      [] OTHER -> [stage |-> "queued", progress |-> 0]

\* The StatusResponse getStatus returns for a job result.
StatusResponse(jobStatus, ready, errText) ==
    [stage |-> MapStage(jobStatus, ready).stage, progress |-> MapStage(jobStatus, ready).progress, errorMessage |-> errText, seen |-> jobStatus, attempt |-> 0]

\* The StatusResponse of the 404 branch of getStatus's catch.
JobNotFound == [stage |-> "error", progress |-> 0, errorMessage |-> "Job not found", seen |-> "http404", attempt |-> 0]

Includes(files, f) == \E i \in 1..Len(files) : files[i] = f

EndsWithPng(f) == f.ext = "png"

\* files.find(f => f.endsWith('.png')): the first match, NoFile when none.
FindPng(files) ==
    IF \E i \in 1..Len(files) : EndsWithPng(files[i])
    THEN files[CHOOSE i \in 1..Len(files) : EndsWithPng(files[i]) /\ \A j \in 1..(i - 1) : ~EndsWithPng(files[j])]
    ELSE NoFile

\* The artifact getStatus asks for, given the listing and metadata.bundle.montage_file.
SelectBaseImage(files, montageFile) ==
    LET preferred == IF montageFile # NoFile THEN montageFile ELSE MontageOverview
    IN  IF Includes(files, preferred) THEN preferred
        ELSE IF FindPng(files) # NoFile THEN FindPng(files) ELSE MontageOverview

\* The pixelData record getStatus stores.
BuildPixelData(file, numSlices, prompt) ==
    [present |-> TRUE, base64Png |-> file, slices |-> IF numSlices >= 0 THEN numSlices ELSE 0, modality |-> "CT", prompt |-> IF prompt # "" THEN prompt ELSE DefaultPrompt]

\* Variant of HasPixelData: the stored payload is never found.
HasPixelData_Never(s) == FALSE

\* getPixelData(scanId) is truthy.
HasPixelData(s) == s.present

\* Variant of ShouldTrigger: the latch is not consulted.
ShouldTrigger_NoLatch(stage, latch) == stage = "analyzing"

\* The guard of the analysis trigger in pollStatus.
ShouldTrigger(stage, latch) == stage = "analyzing" /\ ~latch

\* The guard of the interval callback that stops the interval.
IntervalStops(closureStage) == closureStage \in TerminalStages

\* ------------------------------------------------- stream reader (pure)
\* Decoded stream text is a sequence of tokens; a JSON text is two tokens, its
\* head and its tail, so that a chunk boundary can fall inside it.
NoObj == [type |-> "", textDelta |-> "", text |-> ""]

NL == [t |-> "nl", obj |-> NoObj, s |-> ""]
P0 == [t |-> "0:", obj |-> NoObj, s |-> ""]
PData == [t |-> "data: ", obj |-> NoObj, s |-> ""]
JsonNull == [t |-> "null", obj |-> NoObj, s |-> ""]
JsonHead(o) == [t |-> "jsonHead", obj |-> o, s |-> ""]
JsonTail(o) == [t |-> "jsonTail", obj |-> o, s |-> ""]
Plain(str) == [t |-> "plain", obj |-> NoObj, s |-> str]

\* JSON.parse(jsonStr): the text parses when it is a whole JSON text.
JsonParse(toks) ==
    IF Len(toks) = 2 /\ toks[1].t = "jsonHead" /\ toks[2].t = "jsonTail" /\ toks[1].obj = toks[2].obj
    THEN [ok |-> TRUE, null |-> FALSE, obj |-> toks[1].obj]
    ELSE IF toks = <<JsonNull>> THEN [ok |-> TRUE, null |-> TRUE, obj |-> NoObj]
    ELSE [ok |-> FALSE, null |-> FALSE, obj |-> NoObj]

\* Variant of ProcessAiSdkLine: a line that does not parse is appended as it is.
ProcessAiSdkLine_AppendsRaw(acc, rest) ==
    LET data == JsonParse(rest)
    IN  IF ~data.ok \/ data.null THEN acc \o rest
        ELSE IF data.obj.type = "text-delta" /\ data.obj.textDelta # "" THEN Append(acc, Plain(data.obj.textDelta))
        ELSE IF data.obj.type = "text" /\ data.obj.text # "" THEN Append(acc, Plain(data.obj.text))
        ELSE acc

\* The branch for a line that starts with "0:"; a throw of JSON.parse, or of the
\* property access on null, is caught and the line is skipped.
ProcessAiSdkLine(acc, rest) ==
    LET data == JsonParse(rest)
    IN  IF ~data.ok \/ data.null THEN acc
        ELSE IF data.obj.type = "text-delta" /\ data.obj.textDelta # "" THEN Append(acc, Plain(data.obj.textDelta))
        ELSE IF data.obj.type = "text" /\ data.obj.text # "" THEN Append(acc, Plain(data.obj.text))
        ELSE acc

\* The branch for a line that starts with "data: "; on a throw the catch block
\* appends the remainder of the line as it is.
ProcessSseLine(acc, rest) ==
    LET data == JsonParse(rest)
    IN  IF data.ok /\ ~data.null
        THEN IF data.obj.textDelta # "" THEN Append(acc, Plain(data.obj.textDelta))
             ELSE IF data.obj.text # "" THEN Append(acc, Plain(data.obj.text))
             ELSE acc
        ELSE acc \o rest

\* Variant of ProcessLine: the plain text branch assigns instead of appending.
ProcessLine_PlainAssigns(acc, line) ==
    IF line[1] = P0 THEN ProcessAiSdkLine(acc, Tail(line))
    ELSE IF line[1] = PData THEN ProcessSseLine(acc, Tail(line))
    ELSE line \o <<Plain(" ")>>

\* The body of the loop over the lines of a chunk, for a non-empty trimmed line.
ProcessLine(acc, line) ==
    IF line[1] = P0 THEN ProcessAiSdkLine(acc, Tail(line))
    ELSE IF line[1] = PData THEN ProcessSseLine(acc, Tail(line))
    ELSE acc \o line \o <<Plain(" ")>>

\* chunk.split('\n')
RECURSIVE SplitLines(_)
SplitLines(chunk) ==
    IF \A i \in 1..Len(chunk) : chunk[i] # NL THEN <<chunk>>
    ELSE LET k == CHOOSE i \in 1..Len(chunk) : chunk[i] = NL /\ \A j \in 1..(i - 1) : chunk[j] # NL
         IN  <<SubSeq(chunk, 1, k - 1)>> \o SplitLines(SubSeq(chunk, k + 1, Len(chunk)))

\* The values of accumulatedText after each line of the chunk, acc first.
RECURSIVE AccumulatedAfter(_, _)
AccumulatedAfter(accs, lines) ==
    IF lines = <<>> THEN accs
    ELSE IF Head(lines) = <<>> THEN AccumulatedAfter(accs, Tail(lines))
    ELSE AccumulatedAfter(Append(accs, ProcessLine(accs[Len(accs)], Head(lines))), Tail(lines))

\* accumulatedText once the chunk has been processed.
ProcessChunk(acc, chunk) ==
    LET accs == AccumulatedAfter(<<acc>>, SplitLines(chunk)) IN accs[Len(accs)]

IsPrefix(a, b) == Len(a) <= Len(b) /\ SubSeq(b, 1, Len(a)) = a

\* Every value set during the chunk extends the value set before it.
ExtendsEach(acc, chunk) ==
    LET accs == AccumulatedAfter(<<acc>>, SplitLines(chunk))
    IN  \A i \in 1..(Len(accs) - 1) : IsPrefix(accs[i], accs[i + 1])

\* ---------------------------------------------- extractKeyFindings (pure)
\* Text handed to extractKeyFindings is a sequence of the same tokens: a marker
\* character of the bullet pattern, the digits-and-dot of the numbered pattern,
\* a sentence terminator, a newline, or a run of other characters.
Bullet == [t |-> "bullet", obj |-> NoObj, s |-> "-"]
Numbered == [t |-> "number", obj |-> NoObj, s |-> "1."]
Stop == [t |-> "stop", obj |-> NoObj, s |-> "."]

\* Number of characters of the strings the model uses.
StrLen(str) ==
    CASE str = "Mild atrophy" -> 12
      [] str = "No mass" -> 7
      [] str = "Follow up in 6 months" -> 21
      [] str = "T2" -> 2
      [] str = "weighted lesion" -> 15
      [] str = "The ventricles are normal in size" -> 33
      [] str = "Impression: normal" -> 18
      [] str = "plain fallback text" -> 19
      [] str = "sse text" -> 8
      [] str = " world" -> 6
      [] str = "Hello" -> 5
      [] str = "{oops" -> 5
      [] OTHER -> 1

\* Number of characters of a token.
TokLen(tok) ==
    CASE tok.t = "plain" -> StrLen(tok.s)
      [] tok.t = "0:" -> 2
      [] tok.t = "data: " -> 6
      [] tok.t = "null" -> 4
      [] tok.t \in {"jsonHead", "jsonTail"} -> 12
      [] tok.t = "number" -> 2
      [] OTHER -> 1

Take(seq, n) == SubSeq(seq, 1, IF n < Len(seq) THEN n ELSE Len(seq))

\* text.match(/<marker>\s*(.+?)(?=\n|$)/g), each match with its marker and the
\* whitespace after it removed: a match starts at any marker token (the
\* pattern is not anchored to the start of a line), \s* runs over the newlines
\* that follow, and (.+?) runs to the end of that line.
RECURSIVE MarkedItems(_, _, _)
MarkedItems(text, marker, i) ==
    IF i > Len(text) THEN <<>>
    ELSE IF text[i].t # marker \/ \A k \in (i + 1)..Len(text) : text[k] = NL THEN MarkedItems(text, marker, i + 1)
    ELSE LET k == CHOOSE k \in (i + 1)..Len(text) : text[k] # NL /\ \A m \in (i + 1)..(k - 1) : text[m] = NL
             j == CHOOSE j \in k..Len(text) : (\A m \in k..j : text[m] # NL) /\ (j = Len(text) \/ text[j + 1] = NL)
         IN  <<SubSeq(text, k, j)>> \o MarkedItems(text, marker, j + 1)

\* text.split(/[.!?]+/): the pieces between sentence terminators (the dot of a
\* number is one; its digits stay with the piece before it).
RECURSIVE SplitSentences(_, _)
SplitSentences(text, cur) ==
    IF text = <<>> THEN <<cur>>
    ELSE IF Head(text).t = "stop" THEN <<cur>> \o SplitSentences(Tail(text), <<>>)
    ELSE IF Head(text).t = "number" THEN <<Append(cur, Plain("1"))>> \o SplitSentences(Tail(text), <<>>)
    ELSE SplitSentences(Tail(text), Append(cur, Head(text)))

\* s.trim(): newlines at both ends removed.
RECURSIVE Trim(_)
Trim(str) ==
    IF str = <<>> THEN <<>>
    ELSE IF Head(str) = NL THEN Trim(Tail(str))
    ELSE IF str[Len(str)] = NL THEN Trim(SubSeq(str, 1, Len(str) - 1))
    ELSE str

RECURSIVE Length(_)
Length(str) == IF str = <<>> THEN 0 ELSE TokLen(Head(str)) + Length(Tail(str))

\* Variant of LongSentences: every sentence is kept, whatever its length.
RECURSIVE LongSentences_AnyLength(_)
LongSentences_AnyLength(pieces) ==
    IF pieces = <<>> THEN <<>>
    ELSE (IF Length(Trim(Head(pieces))) > 0 THEN <<Trim(Head(pieces))>> ELSE <<>>) \o LongSentences_AnyLength(Tail(pieces))

\* The sentences kept by the fallback: trimmed length over 20.
RECURSIVE LongSentences(_)
LongSentences(pieces) ==
    IF pieces = <<>> THEN <<>>
    ELSE (IF Length(Trim(Head(pieces))) > 20 THEN <<Trim(Head(pieces))>> ELSE <<>>) \o LongSentences(Tail(pieces))

\* Variant of TopUp: numbered items are taken only when no bullet item was found.
TopUp_OnlyWhenEmpty(findings, numbered) ==
    IF numbered # <<>> /\ findings = <<>> THEN Take(numbered, 5) ELSE findings

\* Variant of TopUp: the numbered items are cut to 5 whatever was collected.
TopUp_FullSlice(findings, numbered) ==
    IF numbered # <<>> /\ Len(findings) < 5 THEN findings \o Take(numbered, 5) ELSE findings

\* The numbered step: slice(0, 5 - findings.length) when findings.length < 5.
TopUp(findings, numbered) ==
    IF numbered # <<>> /\ Len(findings) < 5 THEN findings \o Take(numbered, 5 - Len(findings)) ELSE findings

ExtractKeyFindings(text) ==
    LET bullets == Take(MarkedItems(text, "bullet", 1), 5)
        findings == TopUp(bullets, MarkedItems(text, "number", 1))
        sentences == Take(LongSentences(SplitSentences(text, <<>>)), 4)
    IN  IF findings # <<>> THEN findings
        ELSE IF sentences # <<>> THEN sentences
        ELSE << <<Plain("AI analysis completed")>> >>

\* ------------------------------------------------------------ page effect
\* pollStatus() is called: getStatus issues GET /result/{job_id} at once.
StartPoll(oldPolls) ==
    /\ nStarted < MaxPolls
    /\ nStarted' = nStarted + 1
    /\ polls' = Append(oldPolls, NewPoll)
    /\ hist' = [hist EXCEPT !.requestAfterTerminal = @ \/ (hist.published \cap TerminalStages # {})]

\* Variant of Cleanup: the closure's flag is left as it is.
Cleanup_KeepsFlag(ps) == ps

\* Cleanup of the effect instance in force: isMounted = false for its closure
\* (its invocations publish nothing from now on, so their overtaken mark is dropped).
Cleanup(ps) == [p \in DOMAIN ps |-> [ps[p] EXCEPT !.alive = FALSE, !.overtaken = FALSE]]

\* The effect dependencies [scanId, results, status?.stage] differ from the last run.
DepsChanged == ~effect.ran \/ effect.stage # status.stage \/ effect.results # results.present

\* React runs the effect: cleanup of the previous instance, then the body.
RunEffect ==
    /\ mounted
    /\ DepsChanged
    /\ StartPoll(Cleanup(polls))
    /\ effect' = [ran |-> TRUE, stage |-> status.stage, results |-> results.present, interval |-> TRUE]
    /\ UNCHANGED <<remote, store, status, error, results, streamStartedRef, mounted, stream>>

\* The setInterval callback of the effect instance in force, closure stage terminal.
TickStops ==
    /\ mounted /\ effect.ran /\ effect.interval
    /\ IntervalStops(effect.stage)
    /\ effect' = [effect EXCEPT !.interval = FALSE]
    /\ UNCHANGED <<remote, store, polls, nStarted, status, error, results, streamStartedRef, mounted, stream, hist>>

\* The setInterval callback of the effect instance in force, polling.
TickPolls ==
    /\ mounted /\ effect.ran /\ effect.interval
    /\ ~IntervalStops(effect.stage)
    /\ StartPoll(polls)
    /\ UNCHANGED <<remote, store, status, error, results, streamStartedRef, mounted, effect, stream>>

\* The page is torn down: the cleanup of the effect instance in force runs.
Unmount ==
    /\ mounted /\ effect.ran
    /\ mounted' = FALSE
    /\ polls' = Cleanup(polls)
    /\ effect' = [effect EXCEPT !.interval = FALSE]
    /\ UNCHANGED <<remote, store, nStarted, status, error, results, streamStartedRef, stream, hist>>

\* ----------------------------------------------------- compression service
RemoteAdvance ==
    /\ \/ remote = "pending" /\ remote' \in {"processing", "failed"}
       \/ remote = "processing" /\ remote' \in {"complete", "failed"}
    /\ UNCHANGED <<store, polls, nStarted, status, error, results, streamStartedRef, mounted, effect, stream, hist>>

\* ------------------------------------------------- pollStatus continuation
\* `await getStatus` returns r to invocation p.  The continuation of pollStatus
\* is a microtask of the task that settled getStatus, so it runs in the same
\* step; h is the history after getStatus's own part of the step.
\* Variant of Returns: the latch is set before the isMounted test, so a discarded
\* "analyzing" response sets it without starting the analysis.
Returns_LatchBeforeCheck(p, r, h) ==
    IF ~polls[p].alive
    THEN /\ polls' = Returned(polls, p)
         /\ hist' = [h EXCEPT !.lateAnalyzing = @ \/ (~mounted /\ r.stage = "analyzing"),
                               !.discardedAnalyzing = @ \/ (mounted /\ r.stage = "analyzing" /\ ~streamStartedRef)]
         /\ streamStartedRef' = (streamStartedRef \/ r.stage = "analyzing")
         /\ UNCHANGED <<status, error, stream>>
    ELSE /\ polls' = Returned(Overtake(polls, p), p)
         /\ status' = r
         /\ error' = ""
         /\ IF ShouldTrigger(r.stage, streamStartedRef)
            THEN /\ streamStartedRef' = TRUE
                 /\ stream' = [NoStream EXCEPT !.pc = "analyzeScan", !.results = effect.results]
                 /\ hist' = [h EXCEPT !.triggers = @ + 1, !.published = @ \cup {r.stage}, !.analyzingPublished = Sat(@), !.outOfOrder = @ \/ polls[p].overtaken]
            ELSE /\ UNCHANGED <<streamStartedRef, stream>>
                 /\ hist' = [h EXCEPT !.published = @ \cup {r.stage}, !.analyzingPublished = IF r.stage = "analyzing" THEN Sat(@) ELSE @, !.outOfOrder = @ \/ polls[p].overtaken]

\* getStatus never returns the stage "completed" (no branch of its switch
\* assigns it), so the getResults branch of pollStatus has no step here.
Returns(p, r, h) ==
    IF ~polls[p].alive
    THEN /\ polls' = Returned(polls, p)
         /\ hist' = [h EXCEPT !.lateAnalyzing = @ \/ (~mounted /\ r.stage = "analyzing"),
                               !.discardedAnalyzing = @ \/ (mounted /\ r.stage = "analyzing" /\ ~streamStartedRef)]
         /\ UNCHANGED <<status, error, streamStartedRef, stream>>
    ELSE /\ polls' = Returned(Overtake(polls, p), p)
         /\ status' = r
         /\ error' = ""
         /\ IF ShouldTrigger(r.stage, streamStartedRef)
            THEN /\ streamStartedRef' = TRUE
                 /\ stream' = [NoStream EXCEPT !.pc = "analyzeScan", !.results = effect.results]
                 /\ hist' = [h EXCEPT !.triggers = @ + 1, !.published = @ \cup {r.stage}, !.analyzingPublished = Sat(@), !.outOfOrder = @ \/ polls[p].overtaken]
            ELSE /\ UNCHANGED <<streamStartedRef, stream>>
                 /\ hist' = [h EXCEPT !.published = @ \cup {r.stage}, !.analyzingPublished = IF r.stage = "analyzing" THEN Sat(@) ELSE @, !.outOfOrder = @ \/ polls[p].overtaken]

\* Variant of Throws: the catch block also clears the interval.
Throws_StopsInterval(p) ==
    /\ polls' = Returned(polls, p)
    /\ error' = IF polls[p].alive THEN "Failed to fetch status" ELSE error
    /\ effect' = [effect EXCEPT !.interval = FALSE]
    /\ UNCHANGED <<status, streamStartedRef, stream, hist>>

\* `await getStatus` throws in invocation p: the catch block of pollStatus.
Throws(p) ==
    /\ polls' = Returned(polls, p)
    /\ error' = IF polls[p].alive THEN "Failed to fetch status" ELSE error
    /\ UNCHANGED <<status, streamStartedRef, stream, hist, effect>>

\* --------------------------------------------------- getStatus (one poll)
\* GET /result/{job_id} answers with the job's state (and its error text when failed).
JobResultOk(p) ==
    /\ polls[p].pc = "getJobResult"
    /\ \E errText \in (IF remote = "failed" THEN {"", "compression failed"} ELSE {""}) :
        IF remote = "complete" /\ ~HasPixelData(store)
        THEN /\ polls' = [polls EXCEPT ![p].pc = "getBundleMetadata"]
             /\ UNCHANGED <<status, error, streamStartedRef, stream, hist>>
        ELSE Returns(p, StatusResponse(remote, HasPixelData(store), errText), [hist EXCEPT !.fastPath = @ \/ remote = "complete"])
    /\ UNCHANGED <<remote, store, nStarted, results, mounted, effect>>

\* GET /result/{job_id} fails with a message containing "404".
JobResultNotFound(p) ==
    /\ polls[p].pc = "getJobResult"
    /\ Returns(p, JobNotFound, hist)
    /\ UNCHANGED <<remote, store, nStarted, results, mounted, effect>>

\* GET /result/{job_id} fails otherwise (network error, other HTTP status): getStatus re-throws.
JobResultThrows(p) ==
    /\ polls[p].pc = "getJobResult"
    /\ Throws(p)
    /\ UNCHANGED <<remote, store, nStarted, results, mounted>>

\* GET /bundle/{job_id} answers: the artifact is selected and requested.
BundleMetadataOk(p) ==
    /\ polls[p].pc = "getBundleMetadata"
    /\ \E files \in Listings, montageFile \in MontageFileChoices :
        polls' = [polls EXCEPT ![p].pc = "getBundleFile", ![p].file = SelectBaseImage(files, montageFile), ![p].listed = Includes(files, SelectBaseImage(files, montageFile))]
    /\ UNCHANGED <<remote, store, nStarted, status, error, results, streamStartedRef, mounted, effect, stream, hist>>

\* The StatusResponse of a poll whose materialization failed (attempt: the
\* number of failed materializations of the session, this one included).
NotReadyResponse == [StatusResponse("complete", FALSE, "") EXCEPT !.attempt = Sat(hist.matFails)]

\* GET /bundle/{job_id} fails: caught, the status stays "compressing".
BundleMetadataFails(p) ==
    /\ polls[p].pc = "getBundleMetadata"
    /\ Returns(p, NotReadyResponse, [hist EXCEPT !.matFails = Sat(@)])
    /\ UNCHANGED <<remote, store, nStarted, results, mounted, effect>>

\* GET /bundle/{job_id}/{file} answers: the payload is stored, the status is "analyzing".
BundleFileOk(p) ==
    /\ polls[p].pc = "getBundleFile"
    /\ polls[p].listed
    /\ \E numSlices \in NumSlicesChoices, prompt \in PromptChoices :
        /\ store' = BuildPixelData(polls[p].file, numSlices, prompt)
        /\ Returns(p, StatusResponse("complete", TRUE, ""), [hist EXCEPT !.storeWrites = Sat(@), !.written = [numSlices |-> numSlices, prompt |-> prompt]])
    /\ UNCHANGED <<remote, nStarted, results, mounted, effect>>

\* Variant of BundleFileFails: the catch block stores a placeholder payload.
BundleFileFails_StoresPlaceholder(p) ==
    /\ polls[p].pc = "getBundleFile"
    /\ Returns(p, NotReadyResponse, [hist EXCEPT !.matFails = Sat(@)])
    /\ store' = BuildPixelData(NoFile, -1, "")
    /\ UNCHANGED <<remote, nStarted, results, mounted, effect>>

\* GET /bundle/{job_id}/{file} fails (always so for a file the bundle does not hold).
BundleFileFails(p) ==
    /\ polls[p].pc = "getBundleFile"
    /\ Returns(p, NotReadyResponse, [hist EXCEPT !.matFails = Sat(@)])
    /\ UNCHANGED <<remote, store, nStarted, results, mounted, effect>>

\* --------------------------------------------------------- startAiAnalysis
\* JSON objects the inference stream may carry.
ObjHello == [type |-> "text-delta", textDelta |-> "Hello", text |-> ""]
ObjWorld == [type |-> "text", textDelta |-> "", text |-> " world"]
ObjFinish == [type |-> "finish", textDelta |-> "", text |-> ""]
ObjSse == [type |-> "", textDelta |-> "", text |-> "sse text"]

\* Chunks the analyze endpoint sends in a page session: toTextStreamResponse
\* streams the model's text as it is, here a line of text (a body of no chunks
\* is a stream without text).
ServerChunks == { <<Plain("Impression: normal"), NL>> }

\* Response bodies of the analyze endpoint in a page session.
ServerBodies == UNION {[1..n -> ServerChunks] : n \in 0..MaxChunks}

\* POST /api/analyze answers: 404 when the store holds no payload, else a stream.
AnalyzeResponds ==
    /\ stream.pc = "analyzeScan"
    /\ IF HasPixelData(store)
       THEN /\ \E body \in ServerBodies : stream' = [stream EXCEPT !.pc = "reading", !.body = body]
            /\ UNCHANGED <<error, hist>>
       ELSE /\ stream' = [stream EXCEPT !.pc = "failed"]
            /\ error' = "AI analysis failed"
            /\ hist' = [hist EXCEPT !.analyzeNotFound = TRUE]
    /\ UNCHANGED <<remote, store, polls, nStarted, status, results, streamStartedRef, mounted, effect>>

\* reader.read() delivers the next chunk: it is decoded, split and its lines processed.
ReadChunk ==
    /\ stream.pc = "reading"
    /\ stream.pos <= Len(stream.body)
    /\ stream' = [stream EXCEPT !.acc = ProcessChunk(@, stream.body[stream.pos]), !.pos = @ + 1,
                                !.appendOnly = @ /\ ExtendsEach(stream.acc, stream.body[stream.pos])]
    /\ UNCHANGED <<remote, store, polls, nStarted, status, error, results, streamStartedRef, mounted, effect, hist>>

\* Variant of SynthesizesResult: the text is not tested.
SynthesizesResult_AnyText(acc, closureResults) == ~closureResults

\* The guard of the result synthesis: accumulatedText && !results.
SynthesizesResult(acc, closureResults) == acc # <<>> /\ ~closureResults

\* reader.read() reports done: the result record is synthesized.
ReadDone ==
    /\ stream.pc = "reading"
    /\ stream.pos > Len(stream.body)
    /\ stream' = [stream EXCEPT !.pc = "done"]
    /\ results' = IF SynthesizesResult(stream.acc, stream.results)
                  THEN [present |-> TRUE, keyFindings |-> ExtractKeyFindings(stream.acc), modality |-> "MRI", slicesProcessed |-> 256]
                  ELSE results
    /\ hist' = [hist EXCEPT !.resultSets = IF SynthesizesResult(stream.acc, stream.results) THEN Sat(@) ELSE @]
    /\ UNCHANGED <<remote, store, polls, nStarted, status, error, streamStartedRef, mounted, effect>>

\* The analyze call or a chunk read fails: the catch block of startAiAnalysis.
StreamFails ==
    /\ stream.pc \in {"analyzeScan", "reading"}
    /\ stream' = [stream EXCEPT !.pc = "failed"]
    /\ error' = "AI analysis failed"
    /\ UNCHANGED <<remote, store, polls, nStarted, status, results, streamStartedRef, mounted, effect, hist>>

\* ------------------------------------------------------------ specification
Next ==
    \/ RunEffect
    \/ TickStops
    \/ TickPolls
    \/ Unmount
    \/ RemoteAdvance
    \/ \E p \in DOMAIN polls : JobResultOk(p)
    \/ \E p \in DOMAIN polls : JobResultNotFound(p)
    \/ \E p \in DOMAIN polls : JobResultThrows(p)
    \/ \E p \in DOMAIN polls : BundleMetadataOk(p)
    \/ \E p \in DOMAIN polls : BundleMetadataFails(p)
    \/ \E p \in DOMAIN polls : BundleFileOk(p)
    \/ \E p \in DOMAIN polls : BundleFileFails(p)
    \/ AnalyzeResponds
    \/ ReadChunk
    \/ ReadDone
    \/ StreamFails

Spec == Init /\ [][Next]_vars

\* The page stays open: the interval goes on ticking every 2.5 s for as long as
\* its callback does not clear it.  nStarted bounds the polls of a window of the
\* session; once every poll of the window has returned the next window opens.
NextWindow ==
    /\ mounted
    /\ nStarted = MaxPolls /\ polls = <<>>
    /\ nStarted' = MaxPolls - 1
    /\ UNCHANGED <<remote, store, polls, status, error, results, streamStartedRef, mounted, effect, stream, hist>>

NextLive == Next \/ NextWindow

\* A request of invocation p that is in flight is answered, one way or another.
Answered(p) ==
    \/ JobResultOk(p) \/ JobResultNotFound(p) \/ JobResultThrows(p)
    \/ BundleMetadataOk(p) \/ BundleMetadataFails(p)
    \/ BundleFileOk(p) \/ BundleFileFails(p)

\* Scheduling: React runs a pending effect, the timer fires, the services answer
\* a request that is in flight, the reader delivers what the response holds.
\* Failures of the network and the user's leaving the page are not fair.
FairnessPolling ==
    /\ WF_vars(RunEffect) /\ WF_vars(TickStops) /\ WF_vars(TickPolls) /\ WF_vars(NextWindow)
    /\ WF_vars(\E p \in DOMAIN polls : Answered(p))
    /\ WF_vars(\E p \in DOMAIN polls : JobResultOk(p))
    /\ WF_vars(\E p \in DOMAIN polls : BundleMetadataOk(p))
    /\ WF_vars(\E p \in DOMAIN polls : BundleFileOk(p))

Fairness ==
    /\ FairnessPolling
    /\ WF_vars(AnalyzeResponds) /\ WF_vars(ReadChunk) /\ WF_vars(ReadDone)

SpecLive == Init /\ [][NextLive]_vars /\ Fairness

\* The session up to the start of the analysis and the polling that goes on
\* beside it: the analyze request stays unanswered.
NextPolling ==
    \/ RunEffect
    \/ TickStops
    \/ TickPolls
    \/ Unmount
    \/ RemoteAdvance
    \/ \E p \in DOMAIN polls : JobResultOk(p)
    \/ \E p \in DOMAIN polls : JobResultNotFound(p)
    \/ \E p \in DOMAIN polls : JobResultThrows(p)
    \/ \E p \in DOMAIN polls : BundleMetadataOk(p)
    \/ \E p \in DOMAIN polls : BundleMetadataFails(p)
    \/ \E p \in DOMAIN polls : BundleFileOk(p)
    \/ \E p \in DOMAIN polls : BundleFileFails(p)
    \/ NextWindow

SpecPolling == Init /\ [][NextPolling]_vars /\ FairnessPolling

\* getStatus alone: one call, from every job state (an unrecognized one included)
\* and every content of the store.
UnknownStates == {"cancelled"}

StoredPayloads == {BuildPixelData(f, n, pr) : f \in {MontageOverview, SliceB}, n \in NumSlicesChoices, pr \in PromptChoices}

StatusInit ==
    /\ remote \in RemoteStates \cup UnknownStates
    /\ store \in {NoPayload} \cup StoredPayloads
    /\ polls = <<NewPoll>>
    /\ nStarted = 1
    /\ status = NoStatus
    /\ error = ""
    /\ results = NoResults
    /\ streamStartedRef = FALSE
    /\ mounted = TRUE
    /\ effect = NoEffect
    /\ stream = NoStream
    /\ hist = NoHist

StatusNext ==
    \/ \E p \in DOMAIN polls : JobResultOk(p)
    \/ \E p \in DOMAIN polls : JobResultNotFound(p)
    \/ \E p \in DOMAIN polls : JobResultThrows(p)
    \/ \E p \in DOMAIN polls : BundleMetadataOk(p)
    \/ \E p \in DOMAIN polls : BundleMetadataFails(p)
    \/ \E p \in DOMAIN polls : BundleFileOk(p)
    \/ \E p \in DOMAIN polls : BundleFileFails(p)

SpecStatus == StatusInit /\ [][StatusNext]_vars

\* The stream reader alone: one session over every response body made of at
\* most MaxLines wire lines, delivered whole or cut in two at any token.
WireLines == {
    <<>>,
    <<P0, JsonHead(ObjHello), JsonTail(ObjHello)>>,
    <<P0, JsonHead(ObjWorld), JsonTail(ObjWorld)>>,
    <<P0, JsonHead(ObjFinish), JsonTail(ObjFinish)>>,
    <<P0, Plain("{oops")>>,
    <<P0, JsonNull>>,
    <<PData, JsonHead(ObjSse), JsonTail(ObjSse)>>,
    <<PData, Plain("plain fallback text")>>,
    <<PData, JsonNull>>,
    <<Plain("Impression: normal")>> }

\* The decoded text of a sequence of wire lines, each ended by a newline.
RECURSIVE Flat(_)
Flat(lines) == IF lines = <<>> THEN <<>> ELSE Head(lines) \o <<NL>> \o Flat(Tail(lines))

\* The text delivered in two chunks, the first of c tokens (in one when c is its length).
CutAt(text, c) == IF c = Len(text) THEN <<text>> ELSE <<SubSeq(text, 1, c), SubSeq(text, c + 1, Len(text))>>

StreamBodies == UNION { {CutAt(Flat(ls), c) : c \in 1..Len(Flat(ls))} : ls \in UNION {[1..n -> WireLines] : n \in 1..MaxLines} }

StreamInit ==
    /\ remote = "complete"
    /\ store = BuildPixelData(MontageOverview, 4, "")
    /\ polls = <<>>
    /\ nStarted = 1
    /\ status = StatusResponse("complete", TRUE, "")
    /\ error = ""
    /\ results = NoResults
    /\ streamStartedRef = TRUE
    /\ mounted = TRUE
    /\ effect = [ran |-> TRUE, stage |-> "analyzing", results |-> FALSE, interval |-> TRUE]
    /\ stream \in {[NoStream EXCEPT !.pc = "reading", !.body = b] : b \in StreamBodies}
    /\ hist = [NoHist EXCEPT !.storeWrites = 1, !.triggers = 1, !.published = {"analyzing"}, !.analyzingPublished = 1]

StreamNext == ReadChunk \/ ReadDone \/ StreamFails

SpecStream == StreamInit /\ [][StreamNext]_vars

\* extractKeyFindings alone: the stream has ended with an accumulated text of at
\* most MaxItems lines and the result record is synthesized from it.
FindingLines == {
    <<Bullet, Plain("Mild atrophy")>>,
    <<Bullet, Plain("No mass")>>,
    <<Numbered, Plain("Follow up in 6 months")>>,
    <<Plain("T2"), Bullet, Plain("weighted lesion")>>,
    <<Plain("The ventricles are normal in size"), Stop>> }

\* Texts with sentences of 20 characters or fewer.
ShortSentence == <<Plain("No mass"), Stop>>
LongSentence == <<Plain("The ventricles are normal in size"), Stop>>
ShortSentenceTexts == {Flat(ls) : ls \in UNION {[1..n -> {ShortSentence, LongSentence}] : n \in 1..MaxItems}}

\* The text "• First\n• Second\n1. Third\n".
FirstSecondThird == Flat(<< <<Bullet, Plain("First")>>, <<Bullet, Plain("Second")>>, <<Numbered, Plain("Third")>> >>)

FindingTexts == {Flat(ls) : ls \in UNION {[1..n -> FindingLines] : n \in 0..MaxItems}} \cup ShortSentenceTexts \cup {FirstSecondThird}

FindingsInit ==
    /\ remote = "complete"
    /\ store = BuildPixelData(MontageOverview, 4, "")
    /\ polls = <<>>
    /\ nStarted = 1
    /\ status = StatusResponse("complete", TRUE, "")
    /\ error = ""
    /\ results = NoResults
    /\ streamStartedRef = TRUE
    /\ mounted = TRUE
    /\ effect = [ran |-> TRUE, stage |-> "analyzing", results |-> FALSE, interval |-> TRUE]
    /\ stream \in {[NoStream EXCEPT !.pc = "reading", !.acc = text] : text \in FindingTexts}
    /\ hist = [NoHist EXCEPT !.storeWrites = 1, !.triggers = 1, !.published = {"analyzing"}, !.analyzingPublished = 1]

FindingsNext == ReadDone \/ StreamFails

SpecFindings == FindingsInit /\ [][FindingsNext]_vars

\* ------------------------------------------------------------------ claims

\* C1: over every interleaving of polls of one page session the analysis
\* trigger is invoked at most once, and the latch streamStartedRef is set
\* exactly from the moment the trigger is invoked on (it is never reset).
Inv_C1_TriggerOnce ==
    /\ hist.triggers <= 1
    /\ streamStartedRef <=> hist.triggers = 1
    /\ stream.pc # "idle" <=> hist.triggers = 1

\* Three snapshots with stage "analyzing" were published and the trigger fired once.
Wit_C1_ThreeAnalyzing == hist.analyzingPublished >= 3 /\ hist.triggers = 1

\* C2 (as claimed): once "completed" or "error" has been published, no further
\* status request is issued in the session.
Inv_C2_NoRequestAfterTerminal == ~hist.requestAfterTerminal

\* The (stage, progress) table of the stage mapper, progress in tenths.
ExpectedPair(jobStatus, payload) ==
    IF jobStatus = "pending" THEN <<"queued", 1>>
    ELSE IF jobStatus = "processing" THEN <<"compressing", 5>>
    ELSE IF jobStatus = "complete" /\ payload THEN <<"analyzing", 8>>
    ELSE IF jobStatus = "complete" THEN <<"compressing", 7>>
    ELSE IF jobStatus = "failed" THEN <<"error", 0>>
    ELSE <<"queued", 0>>

\* C3: getStatus maps the remote job state to (stage, progress) as the table
\* says; an unrecognized state gives (queued, 0) and the call still returns.
Inv_C3_StageTable ==
    status.seen \notin {"none", "http404"} => <<status.stage, status.progress>> = ExpectedPair(status.seen, store.present)

\* getStatus returned (queued, 0) for an unrecognized job state.
Wit_C3_UnknownState ==
    status.seen \in UnknownStates /\ status.stage = "queued" /\ status.progress = 0

\* C4: a poll that observes "complete" while a payload is stored returns
\* "analyzing" at once: it requests neither the bundle listing nor a file, and
\* the stored payload stays as it is.
Prop_C4_FastPath ==
    [][\A p \in DOMAIN polls :
        (JobResultOk(p) /\ remote = "complete" /\ store.present) =>
            /\ polls' = Returned(IF polls[p].alive THEN Overtake(polls, p) ELSE polls, p)
            /\ polls[p].alive => status'.stage = "analyzing" /\ status'.progress = 8
            /\ store' = store]_vars

\* A poll took the fast path on a stored payload.
Wit_C4_FastPathTaken == hist.fastPath /\ store.present /\ hist.storeWrites = 1

Inv_C6_Monotonic ==
    /\ "error" \in hist.published => status.stage = "error"
    /\ "completed" \in hist.published => status.stage = "completed"
    /\ "compressing" \in hist.published => status.stage # "queued"

\* C7 (as claimed): once "analyzing" has been published no later snapshot
\* carries an earlier stage.
Inv_C7_NoRegressAfterAnalyzing == "analyzing" \in hist.published => status.stage \notin EarlierStages

\* C8: a failed materialization step makes the poll return "compressing",
\* stores nothing and leaves the interval running; the next poll that observes
\* "complete" starts materialization again with the bundle listing request.
Prop_C8_MaterializationFailure ==
    [][\A p \in DOMAIN polls :
        /\ (BundleMetadataFails(p) \/ BundleFileFails(p)) =>
            /\ polls[p].alive => status'.stage = "compressing" /\ status'.progress = 7
            /\ ~polls[p].alive => status' = status
            /\ store' = store
            /\ effect' = effect
        /\ (JobResultOk(p) /\ remote = "complete" /\ ~store.present /\ hist.matFails > 0) =>
            polls'[p].pc = "getBundleMetadata"]_vars

\* A failure was published as "compressing" and a later poll is materializing again.
Wit_C8_Retry ==
    /\ status.attempt >= 1 /\ status.stage = "compressing"
    /\ ~store.present
    /\ \E p \in DOMAIN polls : polls[p].pc = "getBundleMetadata" /\ polls[p].alive

\* Invocation p, still current, meets a transport-level failure
\* of the status request (a network error or a non-success HTTP response).
TransportFailureHandled(p) ==
    /\ polls[p].alive
    /\ JobResultThrows(p) \/ JobResultNotFound(p)

Inv_C10_EscalatesAfterRetries == status.attempt >= RetryLimit => status.stage = "error"

\* C10 (amended): however many materializations have failed, the snapshot of a
\* failed materialization is (compressing, 0.7); "error" is reached only from
\* the remote state "failed" or a 404 of the status request.
Inv_C10_NeverEscalates ==
    /\ status.attempt > 0 => status.stage = "compressing" /\ status.progress = 7
    /\ status.stage = "error" => status.seen \in {"failed", "http404"}

\* The RetryLimit-th failed materialization was published as "compressing".
Wit_C10_StillCompressing == status.attempt >= RetryLimit /\ status.stage = "compressing" /\ remote = "complete"

\* C11 (as claimed): on a page that stays open, once the remote job is complete,
\* the payload is stored and the stream has finished, the published stage
\* eventually becomes "completed" or "error".
Prop_C11_PollingTerminates ==
    (mounted /\ remote = "complete" /\ store.present /\ stream.pc = "done") ~> (~mounted \/ status.stage \in TerminalStages)

\* The text of a response body, its chunks put together.
RECURSIVE Joined(_)
Joined(body) == IF body = <<>> THEN <<>> ELSE Head(body) \o Joined(Tail(body))

\* C12 (as claimed): the accumulated text at the end of the stream is the text
\* the reader accumulates from the same stream delivered in one piece, wherever
\* the chunk boundary falls.
Inv_C12_ChunkingIrrelevant ==
    stream.pc = "done" => stream.acc = ProcessChunk(<<>>, Joined(stream.body))

\* The text a string field adds: nothing when the field is absent or empty.
FieldText(str) == IF str = "" THEN <<>> ELSE <<Plain(str)>>

\* What a line adds, as far as the reader's own branches go (acc excluded).
CodeAdds(line) == ProcessLine(<<>>, line)

\* What a "0:" line adds according to C13, other lines as the reader has them.
AddsC13(line) ==
    IF line[1] # P0 THEN CodeAdds(line)
    ELSE IF ~JsonParse(Tail(line)).ok THEN <<>>
    ELSE IF JsonParse(Tail(line)).obj.type = "text-delta" THEN FieldText(JsonParse(Tail(line)).obj.textDelta)
    ELSE IF JsonParse(Tail(line)).obj.type = "text" THEN FieldText(JsonParse(Tail(line)).obj.text)
    ELSE <<>>

\* What the lines of a chunk add according to C13 (an empty line adds nothing).
RECURSIVE AddedC13(_)
AddedC13(lines) ==
    IF lines = <<>> THEN <<>>
    ELSE (IF Head(lines) = <<>> THEN <<>> ELSE AddsC13(Head(lines))) \o AddedC13(Tail(lines))

\* C13: a "0:" line that does not parse adds nothing and the session goes on
\* with the lines after it; a "0:" line of type text-delta or text adds exactly
\* its text field.
Prop_C13_MalformedLineSkipped ==
    [][ReadChunk =>
        /\ stream'.pc = "reading"
        /\ stream'.acc = stream.acc \o AddedC13(SplitLines(stream.body[stream.pos]))
        /\ error' = error]_vars

\* A chunk whose first line did not parse and whose second line was appended.
Wit_C13_SkippedThenAppended ==
    /\ stream.pc = "done"
    /\ stream.body = << <<P0, Plain("{oops"), NL, P0, JsonHead(ObjHello), JsonTail(ObjHello), NL>> >>
    /\ stream.acc = <<Plain("Hello")>>

\* What a "data: " line adds according to C14, other lines as the reader has them.
AddsC14(line) ==
    IF line[1] # PData THEN CodeAdds(line)
    ELSE IF ~JsonParse(Tail(line)).ok THEN Tail(line)
    ELSE IF JsonParse(Tail(line)).obj.textDelta # "" THEN FieldText(JsonParse(Tail(line)).obj.textDelta)
    ELSE FieldText(JsonParse(Tail(line)).obj.text)

\* What the lines of a chunk add according to C14 (an empty line adds nothing).
RECURSIVE AddedC14(_)
AddedC14(lines) ==
    IF lines = <<>> THEN <<>>
    ELSE (IF Head(lines) = <<>> THEN <<>> ELSE AddsC14(Head(lines))) \o AddedC14(Tail(lines))

\* C14 (as claimed): a "data: " line whose remainder parses as JSON adds its
\* textDelta or text field when present (nothing otherwise); one whose remainder
\* is not valid JSON adds the remainder as it is.
Prop_C14_SseLine ==
    [][ReadChunk => stream'.acc = stream.acc \o AddedC14(SplitLines(stream.body[stream.pos]))]_vars

\* C15: every value given to setDiagnosisStream in a session extends the value
\* given before it.
Inv_C15_AppendOnly ==
    /\ stream.appendOnly
    /\ stream.pc = "idle" => stream.acc = <<>>

\* Two chunks were read and each of them added text.
Wit_C15_GrewTwice ==
    /\ stream.pc = "done" /\ Len(stream.body) = 2
    /\ ProcessChunk(<<>>, stream.body[1]) # <<>>
    /\ stream.acc # ProcessChunk(<<>>, stream.body[1])

\* C16: the result record is set at most once in a session, and only by the
\* step that ends the stream with non-empty accumulated text while no result
\* exists; a stream that ends with empty text sets none.
Prop_C16_ResultOnce ==
    [][/\ results' # results => (ReadDone /\ stream.acc # <<>> /\ ~results.present /\ results'.present)
       /\ hist'.resultSets # hist.resultSets => (ReadDone /\ stream.acc # <<>> /\ ~results.present /\ hist'.resultSets = 1)
       /\ (ReadDone /\ stream.acc = <<>>) => results' = results]_vars

\* The stream ended with accumulated text and the result was set, once.
Wit_C16_ResultSet ==
    /\ stream.pc = "done" /\ results.present /\ hist.resultSets = 1
    /\ stream.body # <<>> /\ stream.acc # <<>>

\* C17 (as claimed): when the stream session has failed after text was
\* accumulated, a result record exists.
Inv_C17_ResultOnFatalError ==
    (stream.pc = "failed" /\ stream.acc # <<>> /\ ~stream.results) => results.present

\* C18: once the page is torn down no status request is issued, no snapshot
\* is published and the analysis trigger does not fire, whatever the polls in
\* flight return.
Prop_C18_PollsDiscardedAfterTeardown ==
    [][~mounted =>
        /\ nStarted' = nStarted
        /\ status' = status
        /\ streamStartedRef' = streamStartedRef
        /\ hist'.triggers = hist.triggers
        /\ stream.pc = "idle" => stream' = stream /\ error' = error]_vars

\* A poll in flight at teardown returned "analyzing" afterwards and was discarded.
Wit_C18_LateAnalyzingDiscarded ==
    /\ ~mounted /\ hist.lateAnalyzing /\ polls = <<>>
    /\ hist.triggers = 0 /\ status.stage # "analyzing"

\* C19 (as claimed): once the page is torn down the stream session publishes
\* no further accumulated text, result record or error.
Prop_C19_StreamStopsAtTeardown ==
    [][~mounted => stream'.acc = stream.acc /\ results' = results /\ error' = error]_vars

\* The items of the lines that begin with the marker, in text order.
RECURSIVE LineItems(_, _)
LineItems(lines, marker) ==
    IF lines = <<>> THEN <<>>
    ELSE (IF Len(Head(lines)) > 1 /\ Head(lines)[1].t = marker THEN <<Tail(Head(lines))>> ELSE <<>>) \o LineItems(Tail(lines), marker)

\* The list C20 describes: at most 5 bullet items, topped up with numbered items.
FindingsC20(text) ==
    LET bullets == Take(LineItems(SplitLines(text), "bullet"), 5)
    IN  bullets \o Take(LineItems(SplitLines(text), "number"), 5 - Len(bullets))

\* C20 (as claimed): the findings of the result record are at most 5, and when
\* the text has bullet-marked or numbered lines they are the bullet items in
\* text order (at most 5) followed by numbered items up to a total of 5.
Inv_C20_FindingsOrder ==
    results.present =>
        /\ Len(results.keyFindings) <= 5
        /\ FindingsC20(stream.acc) # <<>> => results.keyFindings = FindingsC20(stream.acc)

\* C21 (as claimed): for the text of the bullet lines First and Second and the
\* numbered line Third the findings are exactly First, Second.
Inv_C21_FirstSecond ==
    (results.present /\ stream.acc = FirstSecondThird) =>
        results.keyFindings = << <<Plain("First")>>, <<Plain("Second")>> >>

\* C21 (amended): for that text the findings are First, Second, Third: two
\* bullet items are fewer than 5, so the numbered item is appended.
Inv_C21_FirstSecondThird ==
    (results.present /\ stream.acc = FirstSecondThird) =>
        results.keyFindings = << <<Plain("First")>>, <<Plain("Second")>>, <<Plain("Third")>> >>

\* The result record was synthesized from that text.
Wit_C21_Extracted == results.present /\ stream.acc = FirstSecondThird /\ Len(results.keyFindings) = 3

\* The items the bullet and the numbered step find in the text.
MarkedOf(text) == MarkedItems(text, "bullet", 1) \o MarkedItems(text, "number", 1)

\* The placeholder list.
Placeholder == << <<Plain("AI analysis completed")>> >>

\* C22: the findings are never empty; sentences are returned only when the
\* bullet and the numbered step found nothing, and then they are the first 4
\* trimmed sentences longer than 20 characters; when there is none either, and
\* for the empty text, the result is the one placeholder entry.
Inv_C22_NeverEmpty ==
    /\ ExtractKeyFindings(<<>>) = Placeholder
    /\ results.present =>
        LET kf == results.keyFindings
            long == LongSentences(SplitSentences(stream.acc, <<>>))
        IN  /\ kf # <<>>
            /\ MarkedOf(stream.acc) # <<>> => \A i \in 1..Len(kf) : \E j \in 1..Len(MarkedOf(stream.acc)) : kf[i] = MarkedOf(stream.acc)[j]
            /\ (MarkedOf(stream.acc) = <<>> /\ long # <<>>) =>
                   /\ Len(kf) <= 4 /\ IsPrefix(kf, long) /\ (Len(kf) = 4 \/ kf = long)
                   /\ \A i \in 1..Len(kf) : Length(kf[i]) > 20 /\ kf[i] = Trim(kf[i])
            /\ (MarkedOf(stream.acc) = <<>> /\ \A i \in 1..Len(SplitSentences(stream.acc, <<>>)) : Length(Trim(SplitSentences(stream.acc, <<>>)[i])) <= 20) => kf = Placeholder

\* A text of short sentences only gave the placeholder entry.
Wit_C22_Placeholder ==
    /\ results.present /\ results.keyFindings = Placeholder
    /\ Len(stream.acc) >= 3

\* The selection rule on every listing and montage_file: the overview/montage
\* name when it is listed, otherwise the first listed name ending in .png.
SelectionRule ==
    \A files \in Listings, montageFile \in MontageFileChoices :
        LET preferred == IF montageFile # NoFile THEN montageFile ELSE MontageOverview
            chosen == SelectBaseImage(files, montageFile)
        IN  /\ Includes(files, preferred) => chosen = preferred
            /\ (~Includes(files, preferred) /\ FindPng(files) # NoFile) => chosen = FindPng(files) /\ Includes(files, chosen)

\* C23: the artifact selected is the overview/montage name when it is listed,
\* otherwise the first listed .png; when the listing holds neither, no file is
\* selected: a poll never requests an artifact that is not in the listing.
Inv_C23_SelectsListedFile ==
    /\ SelectionRule
    /\ \A p \in DOMAIN polls : polls[p].pc = "getBundleFile" => polls[p].listed

\* C24: a status built from the remote state `failed` has stage `error` and a
\* non-empty error message.
Inv_C24_FailedHasMessage ==
    status.seen = "failed" => status.stage = "error" /\ status.errorMessage # ""

\* C25: the payload of a job is written at most once (a stored payload is never
\* written over).
Inv_C25_WrittenOnce == hist.storeWrites <= 1

\* C26: the error message set by a failed stream is not cleared by any later step.
Prop_C26_StreamErrorStays == [][error = "AI analysis failed" => error' # ""]_vars

\* C27: the result record carries the modality and the slice count of the
\* stored payload.
Inv_C27_ResultFromPayload ==
    (results.present /\ store.present) =>
        results.modality = store.modality /\ results.slicesProcessed = store.slices

\* C28: the stored payload has the metrics' num_slices when it is a number and 0
\* otherwise, and the metadata's prompt when it is a string and no prompt ("")
\* otherwise.
Inv_C28_StoredFields ==
    hist.storeWrites > 0 =>
        /\ store.slices = (IF hist.written.numSlices >= 0 THEN hist.written.numSlices ELSE 0)
        /\ store.prompt = hist.written.prompt

\* C30: snapshots are published in poll-start order: no invocation publishes its
\* response after an invocation started later has published its own.
Inv_C30_PublishedInStartOrder == ~hist.outOfOrder

\* An invocation of pollStatus gets its answer (a response or a failure).
PollSettles == Len(polls') < Len(polls)

\* An invocation of pollStatus gets a response with stage "analyzing".
PollReturnsAnalyzing ==
    \E p \in DOMAIN polls : (JobResultOk(p) /\ remote = "complete" /\ HasPixelData(store)) \/ BundleFileOk(p)

\* C29: if from some point on every poll that is answered returns "analyzing",
\* and polls go on being answered, the analysis is eventually started, also
\* after an "analyzing" response was discarded by an effect re-run.
Prop_C29_TriggerNotLost ==
    (<>[][PollSettles => PollReturnsAnalyzing]_vars /\ []<><<PollSettles>>_vars) => <>(hist.triggers = 1)

\* An "analyzing" response was discarded on the mounted page before the trigger
\* fired, and the trigger fired later.
Wit_C29_FiredAfterDiscard == mounted /\ hist.discardedAnalyzing /\ hist.triggers = 1

====
